---- MODULE Spec2Model ----
(***************************************************************************)
(* Model of src/openrouter_reasoning_tokens_pipe.py: the Pipe class of the *)
(* OpenRouter reasoning-tokens adapter.                                    *)
(*                                                                         *)
(*   Spec      pipe() on a streaming request, then the async generator     *)
(*             _handle_streaming_request driven by its consumer, one       *)
(*             action per run from one suspension point (await of the next *)
(*             line, a yield) to the next.                                 *)
(*   PipeSpec  pipe() on any inbound request, then the host awaiting the   *)
(*             coroutine _handle_normal_request.                           *)
(*   ConcSpec  two streaming responses of one Pipe instance, interleaved   *)
(*             at their suspension points.                                 *)
(*   AbortSpec Spec, with a consumer that may stop part-way.               *)
(*   FairSpec  Spec, with an upstream that answers every wait and a        *)
(*             consumer that keeps pulling.                                *)
(*                                                                         *)
(* Python mappings are functions whose DOMAIN is the set of keys present;  *)
(* Python strings that the code cuts (model identifiers) are sequences of  *)
(* one-character strings; other strings are TLA+ strings.                  *)
(***************************************************************************)
EXTENDS Integers, Sequences, FiniteSets, TLC

VARIABLES
    body,            \* the inbound request mapping given to pipe()
    modified_body,   \* pipe(): the copy sent upstream
    ret,             \* what pipe() returned to its caller
    pc,              \* position of the request
    error,           \* the exception that ended the request, or None
    conn,            \* the upstream HTTP connection of the request
    status,          \* the status of the upstream response, once received
    thinking_state,  \* _handle_streaming_request: -1, 0, 1
    data,            \* the decoded current event / the buffered response
    lines,           \* the upstream lines consumed so far, in order
    out,             \* the items yielded so far, in order
    result           \* what the host got by awaiting the coroutine

vars == <<body, modified_body, ret, pc, error, conn, status, thinking_state,
          data, lines, out, result>>

streamVars == <<error, conn, status, thinking_state, data, lines, out>>

---------------------------------------------------------------------------
(* Bounds *)

\* upstream lines delivered to one streaming response
MaxLines == 4

\* pieces concatenated into an inbound model identifier
MaxPieces == 3

---------------------------------------------------------------------------
(* Python values *)

\* Python None / JSON null
None == "None"

\* the empty mapping {}
EmptyDict == [k \in {} |-> None]

\* d.get(k, dflt)
Get(d, k, dflt) == IF k \in DOMAIN d THEN d[k] ELSE dflt

\* truth value of None or a string
Truthy(v) == v \notin {None, ""}

\* {**d, k: v}
With(d, k, v) == [x \in DOMAIN d \cup {k} |-> IF x = k THEN v ELSE d[x]]

\* position of the first occurrence of old in s, 0 when there is none
StrFind(s, old) ==
    LET hits == {i \in 1..(Len(s) - Len(old) + 1) :
                    SubSeq(s, i, i + Len(old) - 1) = old}
    IN  IF hits = {} THEN 0 ELSE CHOOSE i \in hits : \A j \in hits : i <= j

\* faulty variant: s.rsplit(sep, 1)[-1]
StrSplit1Last_Rsplit(s, sep) ==
    LET at == {i \in 1..Len(s) : s[i] = sep}
    IN  IF at = {} THEN s
        ELSE SubSeq(s, 1 + (CHOOSE i \in at : \A j \in at : j <= i), Len(s))

\* s.split(sep, 1)[-1], sep one character
StrSplit1Last(s, sep) ==
    LET i == StrFind(s, <<sep>>)
    IN  IF i = 0 THEN s ELSE SubSeq(s, i + 1, Len(s))

\* s.replace(old, "", 1)
StrReplace1(s, old) ==
    LET i == StrFind(s, old)
    IN  IF i = 0 THEN s
        ELSE SubSeq(s, 1, i - 1) \o SubSeq(s, i + Len(old), Len(s))

---------------------------------------------------------------------------
(* pipes() and pipe() *)

\* "reasoning/"
PrefixToken == <<"r", "e", "a", "s", "o", "n", "i", "n", "g", "/">>

\* the model normalization of pipe()
NormalizeModel(m) == StrReplace1(StrSplit1Last(m, "."), PrefixToken)

\* modified_body as pipe() builds it
PipeModifiedBody(b) ==
    LET copy == [k \in DOMAIN b |-> b[k]]
        m    == IF "model" \in DOMAIN copy
                THEN With(copy, "model", NormalizeModel(copy["model"]))
                ELSE copy
    IN  With(m, "include_reasoning", TRUE)

\* body.get("stream", False), a bool when present
WantsStream(b) == Get(b, "stream", FALSE)

\* pipe(): no statement of the try block raises, since calling an async
\* function only creates the coroutine or the async generator; the except
\* branch is never entered and pipe() returns that object
Pipe ==
    /\ pc = "pipe"
    /\ modified_body' = PipeModifiedBody(body)
    /\ ret' = IF WantsStream(body) THEN "async_generator" ELSE "coroutine"
    /\ pc' = IF WantsStream(body) THEN "start" ELSE "coroutine"
    /\ UNCHANGED <<body, result, streamVars>>

---------------------------------------------------------------------------
(* Upstream lines of a streaming response *)

\* a key the mapping does not hold (used only to build mappings)
Absent == "<absent>"

\* a non-empty fragment, made distinct per line below
Text == "<text>"

\* the non-empty reasoning / content fragment carried by upstream line n
RText(n) == "r" \o ToString(n)
CText(n) == "c" \o ToString(n)

\* delta objects: reasoning null, empty or text; content absent, empty or text
ReasoningKinds == {None, "", Text}
ContentKinds == {Absent, "", Text}
FinishKinds == {None, "", "stop"}

\* the shapes of upstream lines the model delivers
Shapes ==
    {[kind |-> k, r |-> None, c |-> Absent, f |-> None] :
        k \in {"comment", "garbage", "nochoices", "emptychoices"}}
    \cup {[kind |-> "nodelta", r |-> None, c |-> Absent, f |-> "stop"]}
    \cup {[kind |-> "event", r |-> r, c |-> c, f |-> None] :
            r \in ReasoningKinds, c \in ContentKinds}
    \cup {[kind |-> "event", r |-> None, c |-> Absent, f |-> f] :
            f \in FinishKinds}
    \cup {[kind |-> "event", r |-> None, c |-> Text, f |-> "stop"],
          [kind |-> "event", r |-> Text, c |-> Absent, f |-> "stop"]}

MkDelta(r, c) ==
    [k \in {"reasoning"} \cup (IF c = Absent THEN {} ELSE {"content"}) |->
        IF k = "reasoning" THEN r ELSE c]

\* the JSON object of a data line of shape s at position n
EventOf(s, n) ==
    LET delta  == MkDelta(IF s.r = Text THEN RText(n) ELSE s.r,
                          IF s.c = Text THEN CText(n) ELSE s.c)
        choice == IF s.kind = "nodelta"
                  THEN [finish_reason |-> s.f]
                  ELSE [delta |-> delta, finish_reason |-> s.f]
    IN  CASE s.kind = "nochoices"    -> [id |-> "gen-1"]
          [] s.kind = "emptychoices" -> [id |-> "gen-1", choices |-> <<>>]
          [] OTHER                   -> [id |-> "gen-1", choices |-> <<choice>>]

\* the upstream line of shape s at position n: whether it starts with
\* "data: ", whether line[6:] is valid JSON, and the object it decodes to
LineOf(s, n) ==
    [startsWithData |-> s.kind # "comment",
     json           |-> s.kind \notin {"comment", "garbage"},
     obj            |-> IF s.kind \in {"comment", "garbage"}
                        THEN EmptyDict ELSE EventOf(s, n)]

---------------------------------------------------------------------------
(* _handle_streaming_request *)

OpenMarker == "<think>"
CloseMarker == "</think>\n\n"

\* "data: [DONE]\n\n"
DoneLine == [wire |-> "data: [DONE]\n\n"]

\* construct_chunk(content): reads data and body of the enclosing call;
\* 'created' (the wall clock) and 'index' are left out
ConstructChunk(d, b, content) ==
    [wire          |-> "data: {json}\n\n",
     id            |-> Get(d, "id", None),
     object        |-> "chat.completion.chunk",
     model         |-> Get(b, "model", None),
     content       |-> content,
     role          |-> "assistant",
     finish_reason |-> None]

\* data.get("choices", [{}])[0], for a non-empty list
ChoiceOf(d) == Get(d, "choices", <<EmptyDict>>)[1]

\* choice.get("delta", {})
DeltaOf(d) == Get(ChoiceOf(d), "delta", EmptyDict)

\* faulty variant: the opening transition taken again from Answered
OpensThinking_Reopen(ts, delta) ==
    ts # 0 /\ Truthy(Get(delta, "reasoning", None))

\* faulty variant: the opening transition taken on any text
OpensThinking_OnAnyText(ts, delta) ==
    /\ ts = -1
    /\ \/ Truthy(Get(delta, "reasoning", None))
       \/ Truthy(Get(delta, "content", None))

\* faulty variant: the opening transition without its test of thinking_state
OpensThinking_AnyState(ts, delta) ==
    Truthy(Get(delta, "reasoning", None))


\* faulty variant: the opening transition only on reasoning without content
OpensThinking_NoContent(ts, delta) ==
    /\ ts = -1
    /\ Truthy(Get(delta, "reasoning", None))
    /\ ~Truthy(Get(delta, "content", None))

\* thinking_state == -1 and delta.get("reasoning")
OpensThinking(ts, delta) ==
    ts = -1 /\ Truthy(Get(delta, "reasoning", None))

\* faulty variant: the closing transition tests the wrong sentinel
ClosesThinking_WrongState(ts, delta) ==
    /\ ts = 1
    /\ ~Truthy(Get(delta, "reasoning", None))
    /\ Truthy(Get(delta, "content", None))


\* faulty variant: the closing transition without its test of the content
ClosesThinking_NoContentTest(ts, delta) ==
    ts = 0 /\ ~Truthy(Get(delta, "reasoning", None))

\* thinking_state == 0 and not delta.get("reasoning") and delta.get("content")
ClosesThinking(ts, delta) ==
    /\ ts = 0
    /\ ~Truthy(Get(delta, "reasoning", None))
    /\ Truthy(Get(delta, "content", None))


\* faulty variant: the content preferred to the reasoning
ContentOf_ContentFirst(delta) ==
    IF Truthy(Get(delta, "content", None))
    THEN Get(delta, "content", None)
    ELSE Get(delta, "reasoning", "")

\* delta.get("reasoning") or delta.get("content", "")
ContentOf(delta) ==
    IF Truthy(Get(delta, "reasoning", None))
    THEN Get(delta, "reasoning", None)
    ELSE Get(delta, "content", "")

\* choice.get("finish_reason")
FinishOf(d) == Get(ChoiceOf(d), "finish_reason", None)


\* faulty variant: an open reasoning block closed before the terminal marker
FromFinish_Closes(d, o) ==
    IF Truthy(FinishOf(d))
    THEN [out |-> IF /\ \E i \in 1..Len(o) : o[i].content = OpenMarker
                     /\ \A i \in 1..Len(o) : o[i].content # CloseMarker
                  THEN Append(Append(o, [o[1] EXCEPT !.content = CloseMarker]),
                              DoneLine)
                  ELSE Append(o, DoneLine),
          pc |-> "yield_done"]
    ELSE [out |-> o, pc |-> "await_line"]

\* from "if choice.get('finish_reason')" to the next suspension point
FromFinish(d, o) ==
    IF Truthy(FinishOf(d))
    THEN [out |-> Append(o, DoneLine), pc |-> "yield_done"]
    ELSE [out |-> o, pc |-> "await_line"]


\* faulty variant: the reasoning and the content of one event both yielded
FromContent_Both(d, b, o) ==
    IF /\ Truthy(Get(DeltaOf(d), "reasoning", None))
       /\ Truthy(Get(DeltaOf(d), "content", None))
    THEN [out |-> Append(Append(o,
                    ConstructChunk(d, b, Get(DeltaOf(d), "reasoning", None))),
                    ConstructChunk(d, b, Get(DeltaOf(d), "content", None))),
          pc  |-> "yield_content"]
    ELSE IF Truthy(ContentOf(DeltaOf(d)))
    THEN [out |-> Append(o, ConstructChunk(d, b, ContentOf(DeltaOf(d)))),
          pc  |-> "yield_content"]
    ELSE FromFinish(d, o)

\* from "content = ..." to the next suspension point
FromContent(d, b, o) ==
    IF Truthy(ContentOf(DeltaOf(d)))
    THEN [out |-> Append(o, ConstructChunk(d, b, ContentOf(DeltaOf(d)))),
          pc  |-> "yield_content"]
    ELSE FromFinish(d, o)

\* from the state transitions to the next suspension point
FromTransitions(ts, d, b, o) ==
    IF OpensThinking(ts, DeltaOf(d))
    THEN [ts |-> 0, out |-> Append(o, ConstructChunk(d, b, OpenMarker)),
          pc |-> "yield_marker"]
    ELSE IF ClosesThinking(ts, DeltaOf(d))
    THEN [ts |-> 1, out |-> Append(o, ConstructChunk(d, b, CloseMarker)),
          pc |-> "yield_marker"]
    ELSE [ts |-> ts, out |-> FromContent(d, b, o).out,
          pc |-> FromContent(d, b, o).pc]


\* faulty variant: the upstream call made again after a failure
Raise_Retries(e) ==
    /\ pc' = "start"
    /\ error' = e
    /\ conn' = "closed"

\* faulty variant: the failure leaves the connection as it is
Raise_Leaks(e) ==
    /\ pc' = "failed"
    /\ error' = e
    /\ UNCHANGED conn

\* an exception leaves the generator through both "async with" blocks
Raise(e) ==
    /\ pc' = "failed"
    /\ error' = e
    /\ conn' = "closed"

\* first resumption: client.stream(...) and response.raise_for_status()
OpenFailures == {"ConnectError", "ConnectTimeout"}
ReadFailures == {"ReadError", "ReadTimeout"}

\* faulty variant: no response.raise_for_status()
StatusRaises_Never(st) == FALSE

\* response.raise_for_status() raises
StatusRaises(st) == st # "success"

Connect ==
    /\ pc = "start"
    /\ \/ \E e \in OpenFailures :
            /\ Raise(e)
            /\ UNCHANGED <<status, thinking_state>>
       \/ \E st \in {"success", "error_status"} :
            /\ status' = st
            /\ IF StatusRaises(st)
               THEN /\ Raise("HTTPStatusError")
                    /\ UNCHANGED thinking_state
               ELSE /\ conn' = "open"
                    /\ thinking_state' = -1
                    /\ pc' = "await_line"
                    /\ UNCHANGED error
    /\ UNCHANGED <<body, modified_body, ret, result, data, lines, out>>

\* faulty variant: a data line that is not valid JSON is skipped
LineOutcome_SkipsBadJson(line) ==
    CASE ~line.startsWithData \/ ~line.json -> "continue"
      [] line.startsWithData /\ line.json
           /\ Get(line.obj, "choices", <<EmptyDict>>) = <<>> -> "IndexError"
      [] OTHER -> "event"

\* what the head of the loop body does with a line: "continue" for a line
\* that does not start with "data: ", the exception json.loads or [0] raises,
\* or "event" for a decoded event with a first choice
LineOutcome(line) ==
    CASE ~line.startsWithData -> "continue"
      [] line.startsWithData /\ ~line.json -> "JSONDecodeError"
      [] line.startsWithData /\ line.json
           /\ Get(line.obj, "choices", <<EmptyDict>>) = <<>> -> "IndexError"
      [] OTHER -> "event"

\* "async for line": the upstream delivers the next line, and the loop body
\* runs to its next suspension point
RecvLine ==
    /\ pc = "await_line"
    /\ Len(lines) < MaxLines
    /\ \E s \in Shapes :
         LET line == LineOf(s, Len(lines) + 1)
             step == FromTransitions(thinking_state, line.obj, modified_body, out)
         IN  /\ lines' = Append(lines, line)
             /\ CASE LineOutcome(line) = "continue" ->
                       UNCHANGED <<pc, error, conn, thinking_state, data, out>>
                  [] LineOutcome(line) = "JSONDecodeError" ->
                       /\ Raise("JSONDecodeError")
                       /\ UNCHANGED <<thinking_state, data, out>>
                  [] LineOutcome(line) = "IndexError" ->
                       /\ Raise("IndexError")
                       /\ data' = line.obj
                       /\ UNCHANGED <<thinking_state, out>>
                  [] OTHER ->
                       /\ data' = line.obj
                       /\ thinking_state' = step.ts
                       /\ out' = step.out
                       /\ pc' = step.pc
                       /\ UNCHANGED <<error, conn>>
    /\ UNCHANGED <<body, modified_body, ret, result, status>>

\* "async for line": the body of the response ends
Exhausted ==
    /\ pc = "await_line"
    /\ pc' = "exhausted"
    /\ conn' = "closed"
    /\ UNCHANGED <<body, modified_body, ret, result, error, status,
                   thinking_state, data, lines, out>>

\* "async for line": the transport fails or times out
ReadFails ==
    /\ pc = "await_line"
    /\ \E e \in ReadFailures : Raise(e)
    /\ UNCHANGED <<body, modified_body, ret, result, status, thinking_state,
                   data, lines, out>>

\* the consumer asks for the next item after a marker chunk
ResumeAfterMarker ==
    /\ pc = "yield_marker"
    /\ out' = FromContent(data, modified_body, out).out
    /\ pc' = FromContent(data, modified_body, out).pc
    /\ UNCHANGED <<body, modified_body, ret, result, error, conn, status,
                   thinking_state, data, lines>>

\* the consumer asks for the next item after a text chunk
ResumeAfterContent ==
    /\ pc = "yield_content"
    /\ out' = FromFinish(data, out).out
    /\ pc' = FromFinish(data, out).pc
    /\ UNCHANGED <<body, modified_body, ret, result, error, conn, status,
                   thinking_state, data, lines>>

\* faulty variant: no return after "data: [DONE]"
ResumeAfterDone_NoReturn ==
    /\ pc = "yield_done"
    /\ pc' = "await_line"
    /\ UNCHANGED <<body, modified_body, ret, result, error, conn, status,
                   thinking_state, data, lines, out>>

\* the consumer asks for the next item after "data: [DONE]": return
ResumeAfterDone ==
    /\ pc = "yield_done"
    /\ pc' = "done"
    /\ conn' = "closed"
    /\ UNCHANGED <<body, modified_body, ret, result, error, status,
                   thinking_state, data, lines, out>>

---------------------------------------------------------------------------
(* _handle_normal_request *)

\* f"<think>{reasoning}</think>\n{content}" (str(None) is "None")
ThinkWrap(reasoning, content) ==
    "<think>" \o reasoning \o "</think>\n" \o content

\* "message" in choice and "reasoning" in choice["message"]
HasReasoning(choice) ==
    "message" \in DOMAIN choice /\ "reasoning" \in DOMAIN choice["message"]

\* the body of the loop over data["choices"]
RewriteChoice(choice) ==
    IF HasReasoning(choice)
    THEN With(choice, "message",
              With(choice["message"], "content",
                   ThinkWrap(choice["message"]["reasoning"],
                             choice["message"]["content"])))
    ELSE choice

\* choice['message']['content'] raises KeyError
RewriteRaises(d) ==
    /\ "choices" \in DOMAIN d
    /\ \E i \in 1..Len(d["choices"]) :
         /\ HasReasoning(d["choices"][i])
         /\ "content" \notin DOMAIN d["choices"][i]["message"]

\* data after the rewrite
RewriteData(d) ==
    IF "choices" \in DOMAIN d
    THEN With(d, "choices",
              [i \in 1..Len(d["choices"]) |-> RewriteChoice(d["choices"][i])])
    ELSE d

\* choices of a buffered upstream response
MaxChoices == 2

ResponseChoices ==
    {[finish_reason |-> "stop"],
     [message |-> [role |-> "assistant", content |-> "answer"]],
     [message |-> [role |-> "assistant", content |-> "answer",
                   reasoning |-> "why"]],
     [message |-> [role |-> "assistant", content |-> "answer",
                   reasoning |-> None]],
     [message |-> [role |-> "assistant", content |-> None,
                   reasoning |-> "why"]],
     [message |-> [role |-> "assistant", reasoning |-> "why"]]}

\* the JSON bodies of upstream responses with success status
Responses ==
    {[id |-> "gen-1"]}
    \cup {[id |-> "gen-1", choices |-> cs] :
            cs \in UNION {[1..n -> ResponseChoices] : n \in 0..MaxChoices}}

\* the host awaits the coroutine pipe() returned: client.post(...),
\* response.raise_for_status(), data = response.json() and the rewrite;
\* data keeps the response as it was received
AwaitNormal ==
    /\ pc = "coroutine"
    /\ \/ \E e \in OpenFailures \cup ReadFailures :
            /\ pc' = "raised"
            /\ error' = e
            /\ UNCHANGED <<result, status, data>>
       \/ /\ status' = "error_status"
          /\ pc' = "raised"
          /\ error' = "HTTPStatusError"
          /\ UNCHANGED <<result, data>>
       \/ \E d \in Responses :
            /\ status' = "success"
            /\ data' = d
            /\ IF RewriteRaises(d)
               THEN /\ pc' = "raised"
                    /\ error' = "KeyError"
                    /\ UNCHANGED result
               ELSE /\ pc' = "returned"
                    /\ result' = RewriteData(d)
                    /\ UNCHANGED error
    /\ UNCHANGED <<body, modified_body, ret, conn, thinking_state, lines, out>>

---------------------------------------------------------------------------
(* pipes(): the model catalog *)

Deepseek == <<"d", "e", "e", "p", "s", "e", "e", "k">>
DeepseekR1 == Deepseek \o <<"/">> \o Deepseek \o <<"-", "r", "1">>

models ==
    <<DeepseekR1 \o <<"-", "d", "i", "s", "t", "i", "l", "l", "-",
                      "l", "l", "a", "m", "a", "-", "7", "0", "b">>,
      DeepseekR1,
      DeepseekR1 \o <<":", "f", "r", "e", "e">>,
      <<"a", "n", "t", "h", "r", "o", "p", "i", "c", "/", "c", "l", "a",
        "u", "d", "e", "-", "3", ".", "7", "-", "s", "o", "n", "n", "e",
        "t">> >>

\* the list pipes() returns
pipes ==
    [i \in 1..Len(models) |->
        [id |-> PrefixToken \o models[i], name |-> PrefixToken \o models[i]]]

---------------------------------------------------------------------------
(* The pipe() specification: any inbound request *)

Pieces == {<<".">>, PrefixToken, <<"m">>, <<"f", "n">>}

\* concatenations of at most n pieces
RECURSIVE Concats(_)
Concats(n) ==
    IF n = 0 THEN {<<>>}
    ELSE Concats(n - 1) \cup {s \o p : s \in Concats(n - 1), p \in Pieces}

\* inbound model identifiers: built from pieces, and the catalog identifiers
\* bare and qualified by the host with a function id
ModelIds ==
    Concats(MaxPieces)
    \cup {pipes[i].id : i \in 1..Len(pipes)}
    \cup {<<"f", "n", ".">> \o pipes[i].id : i \in 1..Len(pipes)}

Bodies ==
    {[stream |-> s] : s \in BOOLEAN}
    \cup {[model |-> m] : m \in ModelIds}
    \cup {[model |-> m, stream |-> s] : m \in ModelIds, s \in BOOLEAN}
    \cup {[model |-> m, include_reasoning |-> FALSE] : m \in ModelIds}

PipeInit ==
    /\ body \in Bodies
    /\ modified_body = EmptyDict
    /\ ret = None
    /\ pc = "pipe"
    /\ error = None
    /\ conn = "none"
    /\ status = None
    /\ thinking_state = -1
    /\ data = EmptyDict
    /\ lines = <<>>
    /\ out = <<>>
    /\ result = None

PipeNext ==
    \/ Pipe
    \/ AwaitNormal

PipeSpec == PipeInit /\ [][PipeNext]_vars

---------------------------------------------------------------------------
(* The streaming specification *)

\* "fn.reasoning/m": a catalog identifier as the host qualifies it
StreamModel == <<"f", "n", ".">> \o PrefixToken \o <<"m">>

StreamBodies == {[model |-> StreamModel, stream |-> TRUE]}

NoEvent == EmptyDict

Init ==
    /\ body \in StreamBodies
    /\ modified_body = EmptyDict
    /\ ret = None
    /\ pc = "pipe"
    /\ error = None
    /\ conn = "none"
    /\ status = None
    /\ thinking_state = -1
    /\ data = NoEvent
    /\ lines = <<>>
    /\ out = <<>>
    /\ result = None

Next ==
    \/ Pipe
    \/ Connect
    \/ RecvLine
    \/ Exhausted
    \/ ReadFails
    \/ ResumeAfterMarker
    \/ ResumeAfterContent
    \/ ResumeAfterDone

Spec == Init /\ [][Next]_vars

---------------------------------------------------------------------------
(* Reading the outbound sequence and the consumed lines *)

IsChunk(x) == "content" \in DOMAIN x
IsOpenMarker(x) == IsChunk(x) /\ x.content = "<think>"
IsCloseMarker(x) == IsChunk(x) /\ x.content = "</think>\n\n"
IsMarker(x) == IsOpenMarker(x) \/ IsCloseMarker(x)
IsDone(x) == x = [wire |-> "data: [DONE]\n\n"]

OpenMarkers(o) == {i \in 1..Len(o) : IsOpenMarker(o[i])}
CloseMarkers(o) == {i \in 1..Len(o) : IsCloseMarker(o[i])}
Dones(o) == {i \in 1..Len(o) : IsDone(o[i])}

\* the content strings of the chunks of o, in order
Contents(o) ==
    LET chunks == SelectSeq(o, IsChunk)
    IN  [i \in 1..Len(chunks) |-> chunks[i].content]

\* a consumed line that decodes to an event with a first choice
IsEvent(l) ==
    /\ l.startsWithData
    /\ l.json
    /\ ("choices" \in DOMAIN l.obj => l.obj["choices"] # <<>>)

\* the fragments and the finish-reason a consumed line carries (None when
\* it carries none)
ReasoningIn(l) ==
    IF IsEvent(l) /\ "choices" \in DOMAIN l.obj
       /\ "delta" \in DOMAIN l.obj["choices"][1]
       /\ "reasoning" \in DOMAIN l.obj["choices"][1]["delta"]
    THEN l.obj["choices"][1]["delta"]["reasoning"] ELSE None

ContentIn(l) ==
    IF IsEvent(l) /\ "choices" \in DOMAIN l.obj
       /\ "delta" \in DOMAIN l.obj["choices"][1]
       /\ "content" \in DOMAIN l.obj["choices"][1]["delta"]
    THEN l.obj["choices"][1]["delta"]["content"] ELSE None

FinishIn(l) ==
    IF IsEvent(l) /\ "choices" \in DOMAIN l.obj
       /\ "finish_reason" \in DOMAIN l.obj["choices"][1]
    THEN l.obj["choices"][1]["finish_reason"] ELSE None

NonEmpty(v) == v # None /\ v # ""

HasReasoningText(l) == NonEmpty(ReasoningIn(l))
HasContentText(l) == NonEmpty(ContentIn(l))
ReasoningOnly(l) ==
    HasReasoningText(l) /\ ~HasContentText(l) /\ ~NonEmpty(FinishIn(l))
ContentOnly(l) ==
    HasContentText(l) /\ ~HasReasoningText(l) /\ ~NonEmpty(FinishIn(l))
FinishOnly(l) ==
    NonEmpty(FinishIn(l)) /\ ~HasReasoningText(l) /\ ~HasContentText(l)

\* the last consumed line
LastLine == lines[Len(lines)]

---------------------------------------------------------------------------
(* C1 *)

\* C1: in one streaming response the opening marker chunk "<think>" is
\* emitted at most once and the closing marker chunk "</think>\n\n" at most
\* once, whatever events arrive and in whatever order.
C1_MarkersAtMostOnce ==
    /\ Cardinality(OpenMarkers(out)) <= 1
    /\ Cardinality(CloseMarkers(out)) <= 1

\* two reasoning events, then content, then reasoning again: one marker each
C1_Witness ==
    /\ Len(lines) = 4
    /\ pc = "await_line"
    /\ HasReasoningText(lines[1]) /\ HasReasoningText(lines[2])
    /\ ContentOnly(lines[3])
    /\ HasReasoningText(lines[4])
    /\ Cardinality(OpenMarkers(out)) = 1
    /\ Cardinality(CloseMarkers(out)) = 1
    /\ Len(out) = 6

---------------------------------------------------------------------------
(* C2 *)

C2_Step ==
    /\ thinking_state' \in {-1, 0, 1}
    /\ thinking_state' >= thinking_state
    /\ thinking_state = 1 =>
         /\ OpenMarkers(out') = OpenMarkers(out)
         /\ CloseMarkers(out') = CloseMarkers(out)
    /\ (thinking_state = 1 /\ lines' # lines
          /\ HasReasoningText(lines'[Len(lines')])) =>
         /\ Len(out') = Len(out) + 1
         /\ SubSeq(out', 1, Len(out)) = out
         /\ IsChunk(out'[Len(out')])
         /\ out'[Len(out')].content = ReasoningIn(lines'[Len(lines')])

\* C2: the phase is monotonic over NotStarted(-1) < Thinking(0) <
\* Answered(1): no step lowers it, and once it is Answered no step emits a
\* marker chunk; an event that carries non-empty reasoning then is emitted as
\* one plain text chunk.
C2_PhaseMonotonic == [][C2_Step]_vars

\* reasoning arrived again after the closing marker and went out as text
C2_Witness ==
    /\ thinking_state = 1
    /\ pc = "yield_content"
    /\ HasReasoningText(LastLine)
    /\ out[Len(out)].content = ReasoningIn(LastLine)
    /\ \E i \in 1..(Len(out) - 1) : IsCloseMarker(out[i])
    /\ Cardinality(OpenMarkers(out)) = 1

---------------------------------------------------------------------------
(* C3 *)

\* the non-empty content fragments of the lines ls, in order
ContentTexts(ls) ==
    LET sel == SelectSeq(ls, HasContentText)
    IN  [i \in 1..Len(sel) |-> ContentIn(sel[i])]

\* C3: while no consumed event carries a non-empty reasoning fragment, no
\* marker chunk is emitted, the phase stays NotStarted, and the text chunks
\* emitted are exactly the non-empty content fragments, one chunk each.
C3_NoReasoningNoMarkers ==
    (\A i \in 1..Len(lines) : ~HasReasoningText(lines[i])) =>
        /\ thinking_state = -1
        /\ \A i \in 1..Len(out) : ~IsMarker(out[i])
        /\ Contents(out) = ContentTexts(lines)

\* events [content, finish "stop"]: the content chunk, then the terminal
\* marker
C3_Witness ==
    /\ pc = "done"
    /\ Len(lines) = 2
    /\ ContentOnly(lines[1])
    /\ FinishOnly(lines[2])
    /\ Len(out) = 2
    /\ Contents(out) = <<"c1">>
    /\ IsDone(out[2])

---------------------------------------------------------------------------
(* C4 *)

\* ls is k reasoning-only events, then one or more content-only events, then
\* an event that carries only a finish-reason
MatchesRCF(ls, k) ==
    /\ k >= 1
    /\ Len(ls) >= k + 2
    /\ \A i \in 1..k : ReasoningOnly(ls[i])
    /\ \A i \in (k + 1)..(Len(ls) - 1) : ContentOnly(ls[i])
    /\ FinishOnly(ls[Len(ls)])

ExpectedRCF(ls, k) ==
    <<"<think>">>
    \o [i \in 1..k |-> ReasoningIn(ls[i])]
    \o <<"</think>\n\n">>
    \o [i \in 1..(Len(ls) - 1 - k) |-> ContentIn(ls[k + i])]

\* C4: for k >= 1 reasoning-only events, then m >= 1 content-only events,
\* then a finish-reason event, the response emits exactly the opening marker,
\* the k reasoning chunks in order, the closing marker, the m content chunks
\* in order, then the terminal marker.
C4_ReasoningThenContent ==
    \A k \in 1..Len(lines) :
        (pc \in {"yield_done", "done"} /\ MatchesRCF(lines, k)) =>
            /\ Len(out) = Len(lines) + 2
            /\ Contents(out) = ExpectedRCF(lines, k)
            /\ Dones(out) = {Len(out)}

\* events [reasoning, reasoning, content, finish "stop"]
C4_Witness ==
    /\ pc = "done"
    /\ Len(lines) = 4
    /\ MatchesRCF(lines, 2)
    /\ Contents(out) = <<"<think>", "r1", "r2", "</think>\n\n", "c3">>
    /\ IsDone(out[6])

---------------------------------------------------------------------------
(* C5 *)

C5_Inv ==
    /\ Cardinality(Dones(out)) <= 1
    /\ Dones(out) # {} =>
         /\ Dones(out) = {Len(out)}
         /\ pc \in {"yield_done", "done"}
         /\ data = LastLine.obj
         /\ FinishIn(LastLine) # None
    /\ pc = "exhausted" => Dones(out) = {}

C5_Step == Dones(out) # {} => (out' = out /\ lines' = lines)

\* C5: the terminal marker "data: [DONE]" is emitted at most once, only
\* while handling an event whose finish-reason is non-null, and is the last
\* item: after it no item is emitted and no line is consumed; a response
\* whose upstream is exhausted never holds it.
C5_TerminalMarker == []C5_Inv /\ [][C5_Step]_vars

\* finished on the second of the lines the upstream could deliver
C5_Witness ==
    /\ pc = "done"
    /\ Len(lines) = 2
    /\ Len(out) = 3
    /\ IsDone(out[3])
    /\ FinishIn(LastLine) = "stop"

---------------------------------------------------------------------------
(* C6 *)

IsBadJson(l) == l.startsWithData /\ ~l.json

C6_Inv ==
    \A i \in 1..Len(lines) :
        IsBadJson(lines[i]) =>
            /\ i = Len(lines)
            /\ pc = "failed"
            /\ error = "JSONDecodeError"
            /\ Dones(out) = {}

C6_Step ==
    /\ (lines' # lines /\ IsBadJson(lines'[Len(lines')])) => out' = out
    /\ pc = "failed" => (pc' = pc /\ out' = out /\ lines' = lines)

\* C6: a data line that is not valid JSON makes the response fail with a
\* decode error at that line: the line is not skipped, the chunks already
\* emitted stay, and afterwards nothing is emitted and no line is processed.
C6_DecodeErrorFatal == []C6_Inv /\ [][C6_Step]_vars

\* a malformed third line, after chunks were emitted
C6_Witness ==
    /\ pc = "failed"
    /\ error = "JSONDecodeError"
    /\ Len(lines) = 3
    /\ IsBadJson(lines[3])
    /\ Len(out) >= 3

---------------------------------------------------------------------------
(* C10 *)

TransportErrors == OpenFailures \cup ReadFailures \cup {"HTTPStatusError"}

C10_Inv ==
    /\ status \notin {None, "success"} =>
         /\ pc = "failed"
         /\ error = "HTTPStatusError"
         /\ lines = <<>>
         /\ out = <<>>
    /\ error \in TransportErrors =>
         /\ pc = "failed"
         /\ Dones(out) = {}
    /\ error \in OpenFailures => (lines = <<>> /\ out = <<>>)

C10_Step ==
    (pc = "failed" /\ error \in TransportErrors) => (out' = out /\ pc' = pc)

\* C10: on the streaming path a transport error ends the outbound sequence
\* with a failure and without the terminal marker: a non-success status fails
\* the response before any line is read or chunk emitted, and after a read
\* failure or timeout nothing more is emitted.
C10_StreamTransportError == []C10_Inv /\ [][C10_Step]_vars

\* the read timed out after chunks were emitted
C10_Witness ==
    /\ pc = "failed"
    /\ error = "ReadTimeout"
    /\ Len(lines) >= 2
    /\ Len(out) >= 3

---------------------------------------------------------------------------
(* C7 *)

\* C7: for every model of the catalog, pipe() normalizes the identifier
\* pipes() exposes ("reasoning/" + the upstream identifier) to a non-empty
\* identifier equal to the upstream identifier the entry was built from.
C7_CatalogRoundTrip ==
    \A i \in 1..Len(pipes) :
        (pc # "pipe" /\ "model" \in DOMAIN body
           /\ body["model"] = pipes[i].id) =>
            /\ modified_body["model"] # <<>>
            /\ modified_body["model"] = models[i]

---------------------------------------------------------------------------
(* C8 *)

\* s with everything before the last sep, and that sep, removed
AfterLast(s, sep) ==
    LET at == {i \in 1..Len(s) : s[i] = sep}
    IN  IF at = {} THEN s
        ELSE SubSeq(s, 1 + (CHOOSE i \in at : \A j \in at : j <= i), Len(s))

\* s without the token p at its front
WithoutFront(s, p) ==
    IF Len(s) >= Len(p) /\ SubSeq(s, 1, Len(p)) = p
    THEN SubSeq(s, Len(p) + 1, Len(s))
    ELSE s

\* the keys other than the model and the flag are copied
CopiesTheRest ==
    /\ DOMAIN modified_body = DOMAIN body \cup {"include_reasoning"}
    /\ \A k \in DOMAIN body \ {"model", "include_reasoning"} :
         modified_body[k] = body[k]
    /\ modified_body["include_reasoning"] = TRUE

CutAfterFirst(s, sep, t) ==
    \/ (\A i \in 1..Len(s) : s[i] # sep) /\ t = s
    \/ \E i \in 1..Len(s) :
         /\ s[i] = sep
         /\ \A j \in 1..(i - 1) : s[j] # sep
         /\ t = SubSeq(s, i + 1, Len(s))

Occurs(p, t, i) == i + Len(p) - 1 <= Len(t) /\ SubSeq(t, i, i + Len(p) - 1) = p

\* r is t without its first occurrence of p (t itself when p does not occur)
FirstRemoved(t, p, r) ==
    \/ (\A i \in 1..Len(t) : ~Occurs(p, t, i)) /\ r = t
    \/ \E i \in 1..Len(t) :
         /\ Occurs(p, t, i)
         /\ \A j \in 1..(i - 1) : ~Occurs(p, t, j)
         /\ r = SubSeq(t, 1, i - 1) \o SubSeq(t, i + Len(p), Len(t))

Suffixes(s) == {SubSeq(s, i, Len(s)) : i \in 1..(Len(s) + 1)}

C8_Inv ==
    pc # "pipe" =>
        /\ CopiesTheRest
        /\ "model" \in DOMAIN body =>
             \E t \in Suffixes(body["model"]) :
                 /\ CutAfterFirst(body["model"], ".", t)
                 /\ FirstRemoved(t, PrefixToken, modified_body["model"])

---------------------------------------------------------------------------
(* C9 *)

\* C9: on the non-streaming path a transport error of the upstream call
\* reaches the caller as the payload {"error": "<message>"}, not as a raised
\* exception.
C9_NormalErrorPayload ==
    (~WantsStream(body) /\ error \in TransportErrors) =>
        (pc = "returned" /\ result = [error |-> error])

---------------------------------------------------------------------------
(* C11 *)

\* a consumed data line that decodes to JSON and carries no fragment
CarriesNoFragment(l) ==
    l.startsWithData /\ l.json /\ ~HasReasoningText(l) /\ ~HasContentText(l)

C11_Step ==
    (lines' # lines /\ CarriesNoFragment(lines'[Len(lines')])) =>
        /\ pc' # "failed"
        /\ error' = error
        /\ Contents(out') = Contents(out)
        /\ ~NonEmpty(FinishIn(lines'[Len(lines')])) =>
             (pc' = "await_line" /\ out' = out)

\* C11: a decoded event that lacks expected fields (no choices, a choices
\* list without a first element, a choice without delta, a delta without
\* reasoning and content) never makes the response fail: it emits no chunk
\* and the loop goes on to the next line.
C11_ShapeErrorsTolerated == [][C11_Step]_vars

---------------------------------------------------------------------------
(* Two streaming responses of one Pipe instance, interleaved *)
(*                                                                         *)
(* In ConcSpec pc, error, conn, status, data, lines and out hold one value *)
(* per response, and thinking_state one value per slot that holds a phase. *)

\* the responses in flight
Resp == {"A", "B"}

\* upstream lines delivered to each of the interleaved responses
ConcLines == 2

\* faulty variant: the phase kept on the Pipe instance
PhaseSlot_OnSelf(r) == "self"

\* where response r keeps thinking_state: a local of its own generator call
PhaseSlot(r) == r

\* reasoning-only, content-only and finish-only events
ConcShapes ==
    {s \in Shapes :
        /\ s.kind = "event"
        /\ \/ s.r = Text /\ s.c = Absent /\ s.f = None
           \/ s.r = None /\ s.c = Text /\ s.f = None
           \/ s.r = None /\ s.c = Absent /\ s.f = "stop"}

\* the line of shape s at position n of the upstream of response r
ConcLineOf(r, s, n) ==
    [LineOf(s, n) EXCEPT !.obj = With(LineOf(s, n).obj, "id", "gen-" \o r)]

ConcRaise(r, e) ==
    /\ pc' = [pc EXCEPT ![r] = "failed"]
    /\ error' = [error EXCEPT ![r] = e]
    /\ conn' = [conn EXCEPT ![r] = "closed"]

ConcConnect(r) ==
    /\ pc[r] = "start"
    /\ \/ \E e \in OpenFailures :
            /\ ConcRaise(r, e)
            /\ UNCHANGED <<status, thinking_state>>
       \/ \E st \in {"success", "error_status"} :
            /\ status' = [status EXCEPT ![r] = st]
            /\ IF StatusRaises(st)
               THEN /\ ConcRaise(r, "HTTPStatusError")
                    /\ UNCHANGED thinking_state
               ELSE /\ conn' = [conn EXCEPT ![r] = "open"]
                    /\ thinking_state' =
                         [thinking_state EXCEPT ![PhaseSlot(r)] = -1]
                    /\ pc' = [pc EXCEPT ![r] = "await_line"]
                    /\ UNCHANGED error
    /\ UNCHANGED <<body, modified_body, ret, result, data, lines, out>>

ConcRecvLine(r) ==
    /\ pc[r] = "await_line"
    /\ Len(lines[r]) < ConcLines
    /\ \E s \in ConcShapes :
         LET line == ConcLineOf(r, s, Len(lines[r]) + 1)
             step == FromTransitions(thinking_state[PhaseSlot(r)], line.obj,
                                     modified_body, out[r])
         IN  /\ lines' = [lines EXCEPT ![r] = Append(lines[r], line)]
             /\ CASE LineOutcome(line) = "continue" ->
                       UNCHANGED <<pc, error, conn, thinking_state, data, out>>
                  [] LineOutcome(line) = "JSONDecodeError" ->
                       /\ ConcRaise(r, "JSONDecodeError")
                       /\ UNCHANGED <<thinking_state, data, out>>
                  [] LineOutcome(line) = "IndexError" ->
                       /\ ConcRaise(r, "IndexError")
                       /\ data' = [data EXCEPT ![r] = line.obj]
                       /\ UNCHANGED <<thinking_state, out>>
                  [] OTHER ->
                       /\ data' = [data EXCEPT ![r] = line.obj]
                       /\ thinking_state' =
                            [thinking_state EXCEPT ![PhaseSlot(r)] = step.ts]
                       /\ out' = [out EXCEPT ![r] = step.out]
                       /\ pc' = [pc EXCEPT ![r] = step.pc]
                       /\ UNCHANGED <<error, conn>>
    /\ UNCHANGED <<body, modified_body, ret, result, status>>

ConcExhausted(r) ==
    /\ pc[r] = "await_line"
    /\ pc' = [pc EXCEPT ![r] = "exhausted"]
    /\ conn' = [conn EXCEPT ![r] = "closed"]
    /\ UNCHANGED <<body, modified_body, ret, result, error, status,
                   thinking_state, data, lines, out>>

ConcReadFails(r) ==
    /\ pc[r] = "await_line"
    /\ \E e \in ReadFailures : ConcRaise(r, e)
    /\ UNCHANGED <<body, modified_body, ret, result, status, thinking_state,
                   data, lines, out>>

ConcResumeAfterMarker(r) ==
    /\ pc[r] = "yield_marker"
    /\ out' = [out EXCEPT ![r] = FromContent(data[r], modified_body, out[r]).out]
    /\ pc' = [pc EXCEPT ![r] = FromContent(data[r], modified_body, out[r]).pc]
    /\ UNCHANGED <<body, modified_body, ret, result, error, conn, status,
                   thinking_state, data, lines>>

ConcResumeAfterContent(r) ==
    /\ pc[r] = "yield_content"
    /\ out' = [out EXCEPT ![r] = FromFinish(data[r], out[r]).out]
    /\ pc' = [pc EXCEPT ![r] = FromFinish(data[r], out[r]).pc]
    /\ UNCHANGED <<body, modified_body, ret, result, error, conn, status,
                   thinking_state, data, lines>>

ConcResumeAfterDone(r) ==
    /\ pc[r] = "yield_done"
    /\ pc' = [pc EXCEPT ![r] = "done"]
    /\ conn' = [conn EXCEPT ![r] = "closed"]
    /\ UNCHANGED <<body, modified_body, ret, result, error, status,
                   thinking_state, data, lines, out>>

\* pipe() has returned one generator per request
ConcInit ==
    /\ body \in StreamBodies
    /\ modified_body = PipeModifiedBody(body)
    /\ ret = "async_generator"
    /\ pc = [r \in Resp |-> "start"]
    /\ error = [r \in Resp |-> None]
    /\ conn = [r \in Resp |-> "none"]
    /\ status = [r \in Resp |-> None]
    /\ thinking_state = [s \in {PhaseSlot(r) : r \in Resp} |-> -1]
    /\ data = [r \in Resp |-> NoEvent]
    /\ lines = [r \in Resp |-> <<>>]
    /\ out = [r \in Resp |-> <<>>]
    /\ result = None

ConcNext ==
    \E r \in Resp :
        \/ ConcConnect(r)
        \/ ConcRecvLine(r)
        \/ ConcExhausted(r)
        \/ ConcReadFails(r)
        \/ ConcResumeAfterMarker(r)
        \/ ConcResumeAfterContent(r)
        \/ ConcResumeAfterDone(r)

ConcSpec == ConcInit /\ [][ConcNext]_vars

---------------------------------------------------------------------------
(* C12 *)

\* what one response yields when it runs alone, to its end, on the lines ls
\* from line i on, in phase ts, having yielded o
RECURSIVE SoloRun(_, _, _, _, _)
SoloRun(ls, b, i, ts, o) ==
    IF i > Len(ls) THEN o
    ELSE
      CASE LineOutcome(ls[i]) = "continue" -> SoloRun(ls, b, i + 1, ts, o)
        [] LineOutcome(ls[i]) \in {"JSONDecodeError", "IndexError"} -> o
        [] OTHER ->
             LET t == FromTransitions(ts, ls[i].obj, b, o)
                 c == IF t.pc = "yield_marker"
                      THEN FromContent(ls[i].obj, b, t.out)
                      ELSE [out |-> t.out, pc |-> t.pc]
                 f == IF c.pc = "yield_content"
                      THEN FromFinish(ls[i].obj, c.out)
                      ELSE c
             IN  IF f.pc = "yield_done" THEN f.out
                 ELSE SoloRun(ls, b, i + 1, t.ts, f.out)

Alone(r) == SoloRun(lines[r], modified_body, 1, -1, <<>>)

C12_Inv ==
    \A r \in Resp :
        /\ Len(out[r]) <= Len(Alone(r))
        /\ out[r] = SubSeq(Alone(r), 1, Len(out[r]))
        /\ pc[r] \notin {"yield_marker", "yield_content"} => out[r] = Alone(r)

C12_Step ==
    \A r \in Resp :
        (pc'[r] = pc[r] /\ lines'[r] = lines[r]) =>
            /\ thinking_state'[PhaseSlot(r)] = thinking_state[PhaseSlot(r)]
            /\ data'[r] = data[r]
            /\ out'[r] = out[r]

\* C12: responses of one Pipe instance whose event handling is interleaved
\* each have their own phase and current event: what a response has yielded
\* is what it yields alone on the same lines, and a step of one response
\* changes neither the phase nor the event nor the output of another.
C12_Independent == []C12_Inv /\ [][C12_Step]_vars

\* both responses suspended in the middle of an event, in different phases
C12_Witness ==
    /\ pc["A"] = "yield_marker"
    /\ pc["B"] = "yield_marker"
    /\ thinking_state[PhaseSlot("A")] = 1
    /\ thinking_state[PhaseSlot("B")] = 0
    /\ Len(out["A"]) = 3
    /\ Len(out["B"]) = 1
    /\ out["A"][1].id = "gen-A"
    /\ out["B"][1].id = "gen-B"

---------------------------------------------------------------------------
(* The caller stops consuming the outbound sequence *)

\* the generator is closed or its task cancelled while it is suspended:
\* GeneratorExit / CancelledError is thrown at the suspension point and
\* leaves through the two async with blocks
Abort ==
    /\ pc \in {"await_line", "yield_marker", "yield_content", "yield_done"}
    /\ pc' = "aborted"
    /\ conn' = "closed"
    /\ UNCHANGED <<body, modified_body, ret, result, error, status,
                   thinking_state, data, lines, out>>

AbortNext == Next \/ Abort

AbortSpec == Init /\ [][AbortNext]_vars

---------------------------------------------------------------------------
(* C13 *)

Terminated == {"done", "exhausted", "failed", "aborted"}

\* C13: the upstream connection of a streaming response is open only while
\* the response is running; after the terminal marker, on exhaustion, on a
\* non-success status, on a decode or transport error and when the caller
\* aborts part-way, the response has no open connection.
C13_ConnectionClosed ==
    /\ pc \in Terminated => conn # "open"
    /\ conn = "open" =>
         pc \in {"await_line", "yield_marker", "yield_content", "yield_done"}

\* aborted part-way, after chunks were delivered
C13_Witness ==
    /\ pc = "aborted"
    /\ status = "success"
    /\ conn = "closed"
    /\ Len(out) >= 2
    /\ Len(lines) >= 1

---------------------------------------------------------------------------
(* C14 *)

\* the chunks a step adds to the outbound sequence, the terminal marker
\* not counted
NewChunks ==
    SelectSeq(SubSeq(out', Len(out) + 1, Len(out')), IsChunk)

\* An event begins with the step that consumes its line and goes on, the
\* line unchanged, through the resumptions after its marker and its text.
C14_Step ==
    /\ SubSeq(out', 1, Len(out)) = out
    /\ Len(NewChunks) <= 1
    /\ thinking_state' \in {thinking_state, thinking_state + 1}
    /\ thinking_state' # thinking_state =>
         /\ lines' # lines
         /\ Len(NewChunks) = 1
         /\ IsMarker(NewChunks[1])
    /\ (Len(NewChunks) = 1 /\ IsMarker(NewChunks[1])) =>
         /\ lines' # lines
         /\ thinking_state' = thinking_state + 1
         /\ pc' = "yield_marker"
    /\ (Len(NewChunks) = 1 /\ ~IsMarker(NewChunks[1])) =>
         /\ pc \in {"await_line", "yield_marker"}
         /\ pc' = "yield_content"
    /\ pc' = "yield_marker" => lines' # lines
    /\ pc' = "yield_content" => Len(NewChunks) = 1
    /\ lines' = lines =>
         /\ pc = "yield_content" => pc' \notin {"yield_marker", "yield_content"}
         /\ pc # "yield_marker" => Len(NewChunks) = 0

\* C14: an event yields at most one delimiter chunk, as its first chunk and
\* with exactly one phase step, then at most one text chunk, and nothing
\* else but the terminal marker: so zero, one or two chunks, never both
\* markers, never two phase steps.
C14_ChunksPerEvent == [][C14_Step]_vars

\* two events of two chunks each: marker and text, twice
C14_Witness ==
    /\ pc = "yield_content"
    /\ Len(lines) = 2
    /\ Len(out) = 4
    /\ IsOpenMarker(out[1])
    /\ ~IsMarker(out[2])
    /\ IsCloseMarker(out[3])
    /\ ~IsMarker(out[4])

---------------------------------------------------------------------------
(* C15 *)

\* a consumed line without the "data: " prefix, or a decoded event that
\* carries no non-empty fragment
IsNoOpLine(l) == ~l.startsWithData \/ CarriesNoFragment(l)

C15_Step ==
    (lines' # lines /\ IsNoOpLine(lines'[Len(lines')])) =>
        /\ thinking_state' = thinking_state
        /\ SelectSeq(out', IsChunk) = SelectSeq(out, IsChunk)
        /\ (~lines'[Len(lines')].startsWithData \/ IsEvent(lines'[Len(lines')])) =>
             /\ error' = error
             /\ ~NonEmpty(FinishIn(lines'[Len(lines')])) =>
                  (out' = out /\ pc' = "await_line")

\* C15: in every phase, a line without the "data: " prefix and an event
\* carrying neither a non-empty reasoning nor a non-empty content fragment
\* emit no chunk and leave the phase unchanged.
C15_NoOpLines == [][C15_Step]_vars

\* both kinds of line consumed while Thinking, and the reasoning goes on
C15_Witness ==
    /\ Len(lines) = 4
    /\ HasReasoningText(lines[1])
    /\ ~lines[2].startsWithData
    /\ IsEvent(lines[3]) /\ CarriesNoFragment(lines[3])
    /\ thinking_state = 0
    /\ pc = "yield_content"
    /\ HasReasoningText(lines[4])
    /\ Len(out) = 3

---------------------------------------------------------------------------
(* C16 *)

\* a consumed event with empty reasoning and non-empty content
IsCloser(l) == ~HasReasoningText(l) /\ HasContentText(l)

\* reasoning was received and never followed by a closer
EndsThinking(ls) ==
    /\ \E i \in 1..Len(ls) : HasReasoningText(ls[i])
    /\ \A i, j \in 1..Len(ls) :
         (i < j /\ HasReasoningText(ls[i])) => ~IsCloser(ls[j])

\* C16: when the upstream finishes, by a finish-reason event or by
\* exhaustion, after reasoning that no event with empty reasoning and
\* non-empty content followed, the phase is still Thinking and the outbound
\* sequence holds the opening marker and no closing marker.
C16_UnclosedThinking ==
    (pc \in {"yield_done", "done", "exhausted"} /\ EndsThinking(lines)) =>
        /\ thinking_state = 0
        /\ Cardinality(OpenMarkers(out)) = 1
        /\ CloseMarkers(out) = {}

\* reasoning, then a finish-reason: ended with the block left open
C16_Witness ==
    /\ pc = "done"
    /\ Len(lines) >= 2
    /\ EndsThinking(lines)
    /\ IsOpenMarker(out[1])
    /\ IsDone(out[Len(out)])

---------------------------------------------------------------------------
(* C17 *)

\* the text an event is to emit: its reasoning when non-empty, otherwise
\* its content when non-empty, otherwise none
ExpectedText(l) ==
    IF HasReasoningText(l) THEN ReasoningIn(l)
    ELSE IF HasContentText(l) THEN ContentIn(l)
    ELSE None

EmitsText(l) == ExpectedText(l) # None
IsTextChunk(x) == IsChunk(x) /\ ~IsMarker(x)

\* the lines whose text chunk is due: all consumed lines, but for the last
\* one while the response is suspended at that line's marker
TextDue == IF pc = "yield_marker" THEN SubSeq(lines, 1, Len(lines) - 1) ELSE lines

C17_Inv ==
    LET due    == SelectSeq(TextDue, EmitsText)
        chunks == SelectSeq(out, IsTextChunk)
    IN  /\ Len(chunks) = Len(due)
        /\ \A i \in 1..Len(chunks) :
             /\ chunks[i].content = ExpectedText(due[i])
             /\ chunks[i].role = "assistant"

C17_Step ==
    (/\ lines' # lines
     /\ HasReasoningText(lines'[Len(lines')])
     /\ HasContentText(lines'[Len(lines')])
     /\ thinking_state = 0) =>
        /\ thinking_state' = 0
        /\ pc' = "yield_content"
        /\ out' = Append(out, out'[Len(out')])
        /\ out'[Len(out')].content = ReasoningIn(lines'[Len(lines')])

\* C17: the text chunks of a response are, in the order of the events and
\* one per event, the reasoning fragment of each event that has a non-empty
\* one and otherwise its non-empty content fragment; an event with both,
\* received in Thinking, emits its reasoning and keeps the phase.
C17_TextSelection == []C17_Inv /\ [][C17_Step]_vars

\* an event with both fragments received in Thinking
C17_Witness ==
    /\ Len(lines) = 2
    /\ ReasoningOnly(lines[1])
    /\ HasReasoningText(lines[2]) /\ HasContentText(lines[2])
    /\ pc = "yield_content"
    /\ thinking_state = 0
    /\ Len(out) = 3
    /\ out[3].content = ReasoningIn(lines[2])

---------------------------------------------------------------------------
(* C18 *)

Least(S) == CHOOSE x \in S : \A y \in S : x <= y

\* the consumed events that carry non-empty reasoning, and the closers
\* that come after the first of them
ReasoningLines == {i \in 1..Len(lines) : HasReasoningText(lines[i])}
ClosersAfter(k) == {j \in (k + 1)..Len(lines) : IsCloser(lines[j])}

\* the number of text chunks due to the lines before line k
TextsBefore(k) == Cardinality({i \in 1..(k - 1) : EmitsText(lines[i])})

\* line k is the last consumed and the response is suspended at its marker
AtMarkerOf(k) == k = Len(lines) /\ pc = "yield_marker"

C18_CloseAfterOpen ==
    /\ \A j \in CloseMarkers(out) : \E i \in OpenMarkers(out) : i < j
    /\ thinking_state = 1 => OpenMarkers(out) # {}

C18_OpenPlace ==
    IF ReasoningLines = {} THEN OpenMarkers(out) = {}
    ELSE LET k == Least(ReasoningLines)
             p == TextsBefore(k) + 1
         IN  /\ OpenMarkers(out) = {p}
             /\ ~AtMarkerOf(k) =>
                  /\ Len(out) >= p + 1
                  /\ out[p + 1].content = ReasoningIn(lines[k])

C18_ClosePlace ==
    IF ReasoningLines = {} \/ ClosersAfter(Least(ReasoningLines)) = {}
    THEN CloseMarkers(out) = {}
    ELSE LET m == Least(ClosersAfter(Least(ReasoningLines)))
             q == TextsBefore(m) + 2
         IN  /\ CloseMarkers(out) = {q}
             /\ ~AtMarkerOf(m) =>
                  /\ Len(out) >= q + 1
                  /\ out[q + 1].content = ContentIn(lines[m])

\* C18: a closing marker comes after an opening marker; the opening marker
\* stands right before the text chunk of the first event with non-empty
\* reasoning, whatever content-only events came before, and the closing
\* marker right before the text chunk of the first later event with empty
\* reasoning and non-empty content.
C18_MarkerPlaces == C18_CloseAfterOpen /\ C18_OpenPlace /\ C18_ClosePlace

\* content first, then reasoning, then content again
C18_Witness ==
    /\ Len(lines) = 3
    /\ ContentOnly(lines[1]) /\ ReasoningOnly(lines[2]) /\ ContentOnly(lines[3])
    /\ Len(out) = 5
    /\ IsOpenMarker(out[2])
    /\ IsCloseMarker(out[4])
    /\ out[5].content = ContentIn(lines[3])

---------------------------------------------------------------------------
(* Progress of a streaming response *)
(*                                                                         *)
(* The upstream answers every wait of the response: it accepts or refuses  *)
(* the request, and at every line await it delivers a line, ends the body  *)
(* or fails (the httpx timeout of Pipe.timeout seconds turns silence into  *)
(* a failure).  The consumer keeps asking for the next item.               *)

FairSpec ==
    /\ Init
    /\ [][Next]_vars
    /\ WF_vars(Pipe)
    /\ WF_vars(Connect)
    /\ WF_vars(RecvLine \/ Exhausted \/ ReadFails)
    /\ WF_vars(ResumeAfterMarker \/ ResumeAfterContent \/ ResumeAfterDone)

---------------------------------------------------------------------------
(* C19 *)

Terminal == {"done", "exhausted", "failed"}

\* once ended the response does nothing more, and the upstream call is
\* made once
C19_Step ==
    /\ pc \in Terminal => UNCHANGED vars
    /\ pc \notin {"pipe", "start"} => pc' # "start"
    /\ conn # "none" => conn' # "none"
    /\ error # None => error' = error

---------------------------------------------------------------------------
(* C20 *)

\* choice c of the response, as the caller is to receive it in r
RewrittenAsStated(c, r) ==
    IF "message" \in DOMAIN c /\ "reasoning" \in DOMAIN c["message"]
    THEN /\ DOMAIN r = DOMAIN c
         /\ \A k \in DOMAIN c \ {"message"} : r[k] = c[k]
         /\ DOMAIN r["message"] = DOMAIN c["message"] \cup {"content"}
         /\ \A k \in DOMAIN c["message"] \ {"content"} :
              r["message"][k] = c["message"][k]
         /\ r["message"]["content"] =
              "<think>" \o c["message"]["reasoning"] \o "</think>\n"
                        \o c["message"]["content"]
    ELSE r = c

\* C20: on the non-streaming path every response that upstream returned with
\* success status is returned to the caller, with the content of each
\* message that carries a reasoning field rewritten to "<think>" + reasoning
\* + "</think>\n" + content and everything else unchanged.
C20_NormalRewrite ==
    (status = "success" /\ ~WantsStream(body)) =>
        /\ pc = "returned"
        /\ DOMAIN result = DOMAIN data
        /\ \A k \in DOMAIN data \ {"choices"} : result[k] = data[k]
        /\ "choices" \in DOMAIN data =>
             /\ Len(result["choices"]) = Len(data["choices"])
             /\ \A i \in 1..Len(data["choices"]) :
                  RewrittenAsStated(data["choices"][i], result["choices"][i])

====
